---- MODULE Spec2Model ----
(***************************************************************************)
(* Model of main.py: the two FastAPI handlers create_test (POST /tests)    *)
(* and get_tests (GET /tests) over one SQLite table "tests".               *)
(*                                                                         *)
(* Every request is handled by one member of Procs.  Handlers of different *)
(* worker processes interleave at their storage steps (BEGIN, INSERT,      *)
(* COMMIT, SELECT, fetchall).  SQLite's file locks are modelled as far as  *)
(* the handlers can observe them: a writer holds the RESERVED lock from    *)
(* its INSERT to its COMMIT/ROLLBACK, a reader holds a SHARED lock from    *)
(* its SELECT to the end of fetchall (if the SELECT found a row).  A       *)
(* statement that needs a lock held                                        *)
(* by another connection either waits (the step is not enabled) or gives   *)
(* up after the connection's busy timeout ("database is locked").          *)
(*                                                                         *)
(* Strings are sequences of one-character strings, so that str.strip() is  *)
(* computed and not assumed.                                               *)
(***************************************************************************)
EXTENDS FiniteSets, Integers, Sequences, TLC

\* Number of requests (each handled by its own handler invocation).
NumProcs == 2

Procs == 1..NumProcs
ConnIds == 1..NumProcs

VARIABLES
    table,      \* committed rows of the tests table
    clock,      \* datetime.now(): the server clock
    nextConn,   \* identity of the next connection object sqlite3.connect makes
    conns,      \* the connection objects: open, in a transaction, lock, working copy
    pc,         \* where each handler invocation stands
    req,        \* the request each handler invocation was given
    conn,       \* the handler's local variable conn (0: not assigned)
    cursor,     \* the handler's cursor: the rows its SELECT produced
    resp,       \* what the handler returned, or the exception it let escape
    added,      \* history: the rows the request's COMMIT added to the table
    failed      \* history: the storage step of the request that raised a
                \* storage error other than a uniqueness violation

vars == <<table, clock, nextConn, conns, pc, req, conn, cursor, resp, added, failed>>

----------------------------------------------------------------------------
\* Strings and JSON values

Whitespace == {" ", "\t"}

RECURSIVE LStrip(_)
LStrip(s) == IF s = <<>> THEN s
             ELSE IF Head(s) \in Whitespace THEN LStrip(Tail(s)) ELSE s

RECURSIVE RStrip(_)
RStrip(s) == IF s = <<>> THEN s
             ELSE IF s[Len(s)] \in Whitespace THEN RStrip(SubSeq(s, 1, Len(s) - 1)) ELSE s

\* str.strip()
Strip(s) == RStrip(LStrip(s))

\* fields = ["test_id", "patient_id", "clinic_id", "test_type", "result"]
Fields == <<"test_id", "patient_id", "clinic_id", "test_type", "result">>

FieldSet == {Fields[i] : i \in 1..Len(Fields)}

\* A JSON value held under a key: a string, or something that is not a string.
StrVal(s) == [t |-> "str", s |-> s]
NumVal == [t |-> "num", s |-> <<>>]

\* The request body after request.json().
\*   kind "unparseable": request.json() raises
\*   kind "scalar": a number, a boolean or null
\*   kind "str":   a JSON string; has = the field names that occur in it
\*   kind "arr":   a JSON array;  has = the field names that are elements of it
\*   kind "obj":   a mapping;     has = its keys, val = the values under them
NoVals == [f \in FieldSet |-> NumVal]
Unparseable == [kind |-> "unparseable", has |-> {}, val |-> NoVals]
Scalar == [kind |-> "scalar", has |-> {}, val |-> NoVals]
JsonStr(has) == [kind |-> "str", has |-> has, val |-> NoVals]
JsonArr(has) == [kind |-> "arr", has |-> has, val |-> NoVals]
Obj(has, val) == [kind |-> "obj", has |-> has,
                  val |-> [f \in FieldSet |-> IF f \in has THEN val[f] ELSE NumVal]]

\* A mapping with the five fields present, each a string.
Payload(tid, pid, cid, tt, res) ==
    Obj(FieldSet, [f \in FieldSet |->
        StrVal(CASE f = "test_id" -> tid
                 [] f = "patient_id" -> pid
                 [] f = "clinic_id" -> cid
                 [] f = "test_type" -> tt
                 [] f = "result" -> res)])

----------------------------------------------------------------------------
\* validate_data

NoError == [raised |-> "", msg |-> ""]

\* The loop of validate_data without the strip() test: a blank string passes.
RECURSIVE validate_nostrip_from(_, _)
validate_nostrip_from(data, i) ==
    IF i > Len(Fields) THEN NoError
    ELSE LET f == Fields[i] IN
         IF data.kind = "scalar" THEN [raised |-> "TypeError", msg |-> ""]
         ELSE IF f \notin data.has THEN [raised |-> "", msg |-> "Invalid or missing field: " \o f]
         ELSE IF data.kind # "obj" THEN [raised |-> "TypeError", msg |-> ""]
         ELSE IF data.val[f].t # "str" THEN [raised |-> "", msg |-> "Invalid or missing field: " \o f]
         ELSE validate_nostrip_from(data, i + 1)

validate_data_nostrip(data) == validate_nostrip_from(data, 1)

\* for f in fields:
\*     if f not in data or not isinstance(data[f], str) or not data[f].strip():
\*         return f"Invalid or missing field: {f}"
\* `f not in data` raises TypeError on a number, a boolean or None; on a string
\* it is a substring test and on a list an element test, and then data[f]
\* raises TypeError.
RECURSIVE validate_from(_, _)
validate_from(data, i) ==
    IF i > Len(Fields) THEN NoError
    ELSE LET f == Fields[i] IN
         IF data.kind = "scalar" THEN [raised |-> "TypeError", msg |-> ""]
         ELSE IF f \notin data.has THEN [raised |-> "", msg |-> "Invalid or missing field: " \o f]
         ELSE IF data.kind # "obj" THEN [raised |-> "TypeError", msg |-> ""]
         ELSE IF data.val[f].t # "str" THEN [raised |-> "", msg |-> "Invalid or missing field: " \o f]
         ELSE IF Strip(data.val[f].s) = <<>> THEN [raised |-> "", msg |-> "Invalid or missing field: " \o f]
         ELSE validate_from(data, i + 1)

validate_data(data) == validate_from(data, 1)

----------------------------------------------------------------------------
\* Responses

NoResp == [status |-> -1, error |-> "", ok |-> "", rows |-> {}, raised |-> ""]
\* return {"status": "success"}
Resp200 == [status |-> 200, error |-> "", ok |-> "success", rows |-> {}, raised |-> ""]
\* return results
RespRows(rs) == [status |-> 200, error |-> "", ok |-> "", rows |-> rs, raised |-> ""]
RespError(code, msg) == [status |-> code, error |-> msg, ok |-> "", rows |-> {}, raised |-> ""]
\* An exception leaves the handler: no Response is returned.
Raised(exc) == [status |-> 0, error |-> "", ok |-> "", rows |-> {}, raised |-> exc]

RespInvalidJson == RespError(400, "Invalid Json")
RespConflict == RespError(409, "Conflict: test_id exists")
RespInternalError == RespError(500, "Internal Error")
RespClinicRequired == RespError(400, "clinic_id is required")
RespFetchFailed == RespError(500, "Internal server error")

----------------------------------------------------------------------------
\* The table and the connections

\* The VALUES tuple of the INSERT: the body's values as they are, and
\* datetime.now() -- here with every value stripped.
MakeRowStripped(body, now) ==
    [test_id |-> Strip(body.val["test_id"].s),
     patient_id |-> Strip(body.val["patient_id"].s),
     clinic_id |-> Strip(body.val["clinic_id"].s),
     test_type |-> Strip(body.val["test_type"].s),
     result |-> Strip(body.val["result"].s),
     created_at |-> now]

\* The VALUES tuple of the INSERT: the body's values as they are, and datetime.now().
MakeRow(body, now) ==
    [test_id |-> body.val["test_id"].s,
     patient_id |-> body.val["patient_id"].s,
     clinic_id |-> body.val["clinic_id"].s,
     test_type |-> body.val["test_type"].s,
     result |-> body.val["result"].s,
     created_at |-> now]

\* INSERT into a table without the PRIMARY KEY constraint.
InsertNoConstraint(rows, row) == [err |-> "", rows |-> rows \cup {row}]

\* INSERT OR REPLACE INTO tests.
InsertOrReplace(rows, row) ==
    [err |-> "", rows |-> {r \in rows : r.test_id # row.test_id} \cup {row}]

\* INSERT INTO tests on the rows the transaction sees; test_id TEXT PRIMARY KEY.
InsertStatement(rows, row) ==
    IF \E r \in rows : r.test_id = row.test_id
    THEN [err |-> "IntegrityError", rows |-> rows]
    ELSE [err |-> "", rows |-> rows \cup {row}]

\* SELECT that compares the stripped values.
SelectStripped(rows, clinic) == {r \in rows : Strip(r.clinic_id) = Strip(clinic)}

\* SELECT * FROM tests WHERE clinic_id = ?
Select(rows, clinic) == {r \in rows : r.clinic_id = clinic}

NoConn == [open |-> FALSE, txn |-> FALSE, lock |-> "none", work |-> {}]
\* sqlite3.connect(DB_PATH, ...)
Connect == [open |-> TRUE, txn |-> FALSE, lock |-> "none", work |-> {}]
\* cursor.execute("ROLLBACK") in a transaction
Rollback(cn) == [cn EXCEPT !.txn = FALSE, !.lock = "none", !.work = {}]

\* A handler without the finally clause.
NoClose(cn) == cn

\* finally: conn.close() -- an open transaction is rolled back, locks are released.
Finally(cn) == [open |-> FALSE, txn |-> FALSE, lock |-> "none", work |-> {}]

\* Another connection holds a lock of this kind.
OtherHolds(c, lock) == \E d \in ConnIds : d # c /\ conns[d].lock = lock

----------------------------------------------------------------------------
\* Requests

NoClinic == [present |-> FALSE, s |-> <<>>]
Clinic(s) == [present |-> TRUE, s |-> s]
NoReq == [op |-> "none", body |-> Unparseable, clinic |-> NoClinic]

\* The two requests differ in every field but test_id; V3 has another test_id.
V1 == Payload(<<"t", "1">>, <<"p", "1">>, <<"c", "1">>, <<"p", "c", "r">>, <<"p", "o", "s">>)
V2 == Payload(<<"t", "1">>, <<" ", "p", "2">>, <<"c", "1", " ">>, <<"a", "g">>, <<"n", "e", "g">>)
V3 == Payload(<<"t", "2">>, <<"p", "1", " ">>, <<"C", "1">>, <<"p", "c", "r">>, <<" ", "n", "e", "g">>)

ValidBodies == {V1, V2, V3}

InvalidBodies ==
    { Unparseable, Scalar, JsonStr({}), JsonArr({"test_id"}),
      Obj(FieldSet \ {"patient_id"}, V1.val),
      Obj(FieldSet, [V1.val EXCEPT !["clinic_id"] = NumVal, !["result"] = StrVal(<<" ", "\t">>)]) }

Bodies == ValidBodies \cup InvalidBodies

ClinicParams == {NoClinic, Clinic(<<>>), Clinic(<<"c", "1">>), Clinic(<<"C", "1">>), Clinic(<<"c", "1", " ">>)}

\* if clinic_id is None
ClinicAbsentOnly(c) == ~c.present

\* if not clinic_id: None or the empty string
ClinicMissing(c) == ~c.present \/ c.s = <<>>

----------------------------------------------------------------------------
\* Initial state: initialise_db() has created the empty table; no request yet.

Init ==
    /\ table = {}
    /\ clock = 0
    /\ nextConn = 1
    /\ conns = [c \in ConnIds |-> NoConn]
    /\ pc = [p \in Procs |-> "idle"]
    /\ req = [p \in Procs |-> NoReq]
    /\ conn = [p \in Procs |-> 0]
    /\ cursor = [p \in Procs |-> {}]
    /\ resp = [p \in Procs |-> NoResp]
    /\ added = [p \in Procs |-> {}]
    /\ failed = [p \in Procs |-> ""]

\* The handler returns r (or lets the exception r.raised escape).
Return(p, r) ==
    /\ pc' = [pc EXCEPT ![p] = "done"]
    /\ resp' = [resp EXCEPT ![p] = r]

\* except sqlite3.IntegrityError: ROLLBACK, then 409.  ROLLBACK without an
\* active transaction raises OperationalError inside the except clause.
ExceptIntegrityError(cn) == IF cn.txn THEN RespConflict ELSE Raised("OperationalError")

\* except Exception: ROLLBACK, then 500.  ROLLBACK without an active
\* transaction raises OperationalError inside the except clause.
ExceptException(cn) == IF cn.txn THEN RespInternalError ELSE Raised("OperationalError")

\* The connection after an except clause and the finally clause.
AfterExcept(cn) == Finally(Rollback(cn))

----------------------------------------------------------------------------
\* create_test

\* request.json(), validate_data(body), sqlite3.connect, conn.cursor()
CreateRequest(p, body) ==
    /\ pc[p] = "idle"
    /\ req' = [req EXCEPT ![p] = [op |-> "create", body |-> body, clinic |-> NoClinic]]
    /\ UNCHANGED <<table, clock, cursor, added, failed>>
    /\ IF body.kind = "unparseable"
       THEN Return(p, RespInvalidJson) /\ UNCHANGED <<nextConn, conns, conn>>
       ELSE LET v == validate_data(body) IN
            IF v.raised # ""
            THEN Return(p, Raised(v.raised)) /\ UNCHANGED <<nextConn, conns, conn>>
            ELSE IF v.msg # ""
            THEN Return(p, RespError(400, v.msg)) /\ UNCHANGED <<nextConn, conns, conn>>
            ELSE /\ conn' = [conn EXCEPT ![p] = nextConn]
                 /\ conns' = [conns EXCEPT ![nextConn] = Connect]
                 /\ nextConn' = nextConn + 1
                 /\ pc' = [pc EXCEPT ![p] = "begin"]
                 /\ UNCHANGED resp

\* A statement of the try block raised a storage error that is not an
\* IntegrityError; cn is the connection as the failure left it.
CreateFails(p, step, cn) ==
    /\ failed' = [failed EXCEPT ![p] = step]
    /\ conns' = [conns EXCEPT ![conn[p]] = AfterExcept(cn)]
    /\ Return(p, ExceptException(cn))

\* cursor.execute("BEGIN")
CreateBegin(p, o) ==
    /\ pc[p] = "begin"
    /\ UNCHANGED <<table, clock, nextConn, req, conn, cursor, added>>
    /\ LET c == conn[p] IN
       CASE o = "ok" ->
              /\ conns' = [conns EXCEPT ![c].txn = TRUE]
              /\ pc' = [pc EXCEPT ![p] = "insert"]
              /\ UNCHANGED <<resp, failed>>
         [] o = "error" -> CreateFails(p, "BEGIN", conns[c])
         [] OTHER -> FALSE

\* cursor.execute("INSERT INTO tests ... VALUES (?,?,?,?,?,?)", (..., datetime.now().isoformat()))
CreateInsert(p, o) ==
    /\ pc[p] = "insert"
    /\ clock' = clock + 1
    /\ UNCHANGED <<table, nextConn, req, conn, cursor, added>>
    /\ LET c == conn[p]
           row == MakeRow(req[p].body, clock)
           res == InsertStatement(table \cup conns[c].work, row)
       IN
       CASE o = "ok" ->
              /\ ~OtherHolds(c, "reserved")
              /\ UNCHANGED failed
              /\ IF res.err = "IntegrityError"
                 THEN /\ conns' = [conns EXCEPT ![c] = AfterExcept(conns[c])]
                      /\ Return(p, ExceptIntegrityError(conns[c]))
                 ELSE /\ conns' = [conns EXCEPT ![c].lock = "reserved", ![c].work = res.rows]
                      /\ pc' = [pc EXCEPT ![p] = "commit"]
                      /\ UNCHANGED resp
         [] o = "busy" ->
              \* the RESERVED lock stayed with another writer for the busy timeout
              /\ OtherHolds(c, "reserved")
              /\ CreateFails(p, "INSERT", conns[c])
         [] o = "error" -> CreateFails(p, "INSERT", conns[c])
         [] o = "error_rollback" ->
              \* SQLite rolled the transaction back itself (disk full, I/O error)
              CreateFails(p, "INSERT", Rollback(conns[c]))
         [] OTHER -> FALSE

\* cursor.execute("COMMIT"); return {"status": "success"}
CreateCommit(p, o) ==
    /\ pc[p] = "commit"
    /\ UNCHANGED <<clock, nextConn, req, conn, cursor>>
    /\ LET c == conn[p] IN
       CASE o = "ok" ->
              /\ ~OtherHolds(c, "shared")
              /\ table' = conns[c].work
              /\ added' = [added EXCEPT ![p] = conns[c].work \ table]
              /\ conns' = [conns EXCEPT ![c] = Finally(Rollback(conns[c]))]
              /\ Return(p, Resp200)
              /\ UNCHANGED failed
         [] o = "busy" ->
              \* readers kept their SHARED locks for the busy timeout
              /\ OtherHolds(c, "shared")
              /\ CreateFails(p, "COMMIT", conns[c])
              /\ UNCHANGED <<table, added>>
         [] o = "error" ->
              /\ CreateFails(p, "COMMIT", conns[c])
              /\ UNCHANGED <<table, added>>
         [] o = "error_rollback" ->
              /\ CreateFails(p, "COMMIT", Rollback(conns[c]))
              /\ UNCHANGED <<table, added>>
         [] OTHER -> FALSE

----------------------------------------------------------------------------
\* get_tests

\* if not clinic_id: 400; else sqlite3.connect, conn.cursor()
GetRequest(p, clinic) ==
    /\ pc[p] = "idle"
    /\ req' = [req EXCEPT ![p] = [op |-> "get", body |-> Unparseable, clinic |-> clinic]]
    /\ UNCHANGED <<table, clock, cursor, added, failed>>
    /\ IF ClinicMissing(clinic)
       THEN Return(p, RespClinicRequired) /\ UNCHANGED <<nextConn, conns, conn>>
       ELSE /\ conn' = [conn EXCEPT ![p] = nextConn]
            /\ conns' = [conns EXCEPT ![nextConn] = Connect]
            /\ nextConn' = nextConn + 1
            /\ pc' = [pc EXCEPT ![p] = "select"]
            /\ UNCHANGED resp

\* cursor.execute("SELECT * FROM tests WHERE clinic_id = ?", (clinic_id,))
GetExecute(p, o) ==
    /\ pc[p] = "select"
    /\ UNCHANGED <<table, clock, nextConn, req, conn, added>>
    /\ LET c == conn[p] IN
       CASE o = "ok" ->
              \* the statement keeps its SHARED lock while rows are left to
              \* fetch; with no row it is finished and reset at once
              /\ cursor' = [cursor EXCEPT ![p] = Select(table, req[p].clinic.s)]
              /\ conns' = [conns EXCEPT ![c].lock =
                              IF cursor'[p] = {} THEN "none" ELSE "shared"]
              /\ pc' = [pc EXCEPT ![p] = "fetch"]
              /\ UNCHANGED <<resp, failed>>
         [] o = "error" ->
              \* except Exception: 500; finally: conn.close()
              /\ failed' = [failed EXCEPT ![p] = "SELECT"]
              /\ conns' = [conns EXCEPT ![c] = Finally(conns[c])]
              /\ Return(p, RespFetchFailed)
              /\ UNCHANGED cursor
         [] OTHER -> FALSE

\* rows = cursor.fetchall(); results = [dict(row) for row in rows]; return results
GetFetchall(p) ==
    /\ pc[p] = "fetch"
    /\ UNCHANGED <<table, clock, nextConn, req, conn, cursor, added, failed>>
    /\ conns' = [conns EXCEPT ![conn[p]] = Finally(conns[conn[p]])]
    /\ Return(p, RespRows(cursor[p]))

----------------------------------------------------------------------------
\* Specifications

\* What a storage step may do: succeed, time out on a lock, fail leaving the
\* transaction open, fail after SQLite rolled the transaction back.
Outcomes == {"ok", "busy", "error", "error_rollback"}

\* Storage without faults of its own: only lock contention makes a step fail.
NoFaultOutcomes == {"ok", "busy"}

Step(O) ==
    \E p \in Procs :
        \/ \E body \in Bodies : CreateRequest(p, body)
        \/ \E o \in O \cap {"ok", "error"} : CreateBegin(p, o)
        \/ \E o \in O : CreateInsert(p, o)
        \/ \E o \in O : CreateCommit(p, o)
        \/ \E clinic \in ClinicParams : GetRequest(p, clinic)
        \/ \E o \in O \cap {"ok", "error"} : GetExecute(p, o)
        \/ GetFetchall(p)

Next == Step(Outcomes)

Spec == Init /\ [][Next]_vars

NextNoFault == Step(NoFaultOutcomes)

SpecNoFault == Init /\ [][NextNoFault]_vars

----------------------------------------------------------------------------
\* Payloads that exercise validate_data: every combination, over the five
\* fields, of absent / not a string / "" / blank / "a" / " a ".

FieldChoices == {"absent", "num", "empty", "blank", "plain", "padded"}

ChoiceValue(ch) ==
    CASE ch = "num" -> NumVal
      [] ch = "empty" -> StrVal(<<>>)
      [] ch = "blank" -> StrVal(<<" ", "\t">>)
      [] ch = "plain" -> StrVal(<<"a">>)
      [] ch = "padded" -> StrVal(<<" ", "a", " ">>)
      [] OTHER -> NumVal

ValidationBodies ==
    { Obj({f \in FieldSet : ch[f] # "absent"}, [f \in FieldSet |-> ChoiceValue(ch[f])]) :
        ch \in [FieldSet -> FieldChoices] }

\* Request 1 carries any of the validation payloads; request 2 stores V1
\* before, while or after request 1 is validated.
NextValidate ==
    \/ \E body \in ValidationBodies : CreateRequest(1, body)
    \/ CreateRequest(2, V1)
    \/ CreateBegin(2, "ok")
    \/ CreateInsert(2, "ok")
    \/ CreateCommit(2, "ok")

SpecValidate == Init /\ [][NextValidate]_vars

----------------------------------------------------------------------------
\* Vocabulary of the properties

Done(p) == pc[p] = "done"
IsCreate(p) == req[p].op = "create"
IsGet(p) == req[p].op = "get"

\* s is empty or consists of whitespace only
Blank(s) == \A i \in 1..Len(s) : s[i] \in Whitespace

\* field f of mapping b is absent, not a string, or empty/whitespace-only
FieldFails(b, f) == f \notin b.has \/ b.val[f].t # "str" \/ Blank(b.val[f].s)

IsMapping(b) == b.kind = "obj"
ValidPayload(b) == IsMapping(b) /\ \A f \in FieldSet : ~FieldFails(b, f)

\* the first failing field in the fixed order
FirstFailing(b) ==
    Fields[CHOOSE i \in 1..Len(Fields) :
              /\ FieldFails(b, Fields[i])
              /\ \A j \in 1..(i - 1) : ~FieldFails(b, Fields[j])]

ValidCreate(p) == IsCreate(p) /\ ValidPayload(req[p].body)
TestIdOf(p) == req[p].body.val["test_id"].s
ClinicOf(p) == req[p].body.val["clinic_id"].s

\* row r holds exactly the five submitted values of body b
SameFields(r, b) ==
    /\ r.test_id = b.val["test_id"].s
    /\ r.patient_id = b.val["patient_id"].s
    /\ r.clinic_id = b.val["clinic_id"].s
    /\ r.test_type = b.val["test_type"].s
    /\ r.result = b.val["result"].s

Closed(c) == ~conns[c].open /\ ~conns[c].txn /\ conns[c].lock = "none"

\* the responses section 6 of the specification documents
DocumentedCreate ==
    {Resp200, RespInvalidJson, RespConflict, RespInternalError}
        \cup {RespError(400, "Invalid or missing field: " \o f) : f \in FieldSet}

----------------------------------------------------------------------------
\* C1: whatever the interleaving of create_test requests at BEGIN, INSERT and
\* COMMIT/ROLLBACK, the tests table holds at most one row per test_id, and of
\* the requests carrying one test_id at most one commits its insert and
\* answers 200.
C1_AtMostOneInsertPerTestId ==
    /\ \A r1, r2 \in table : r1.test_id = r2.test_id => r1 = r2
    /\ \A p, q \in Procs :
          (p # q /\ ValidCreate(p) /\ ValidCreate(q) /\ TestIdOf(p) = TestIdOf(q))
              => /\ ~(resp[p] = Resp200 /\ resp[q] = Resp200)
                 /\ ~(added[p] # {} /\ added[q] # {})

\* Two requests with one test_id overlapped: q connected first, p committed
\* and answered 200, q answered 409.
C1_Witness ==
    \E p, q \in Procs :
        /\ ValidCreate(p) /\ ValidCreate(q) /\ TestIdOf(p) = TestIdOf(q)
        /\ conn[q] # 0 /\ conn[q] < conn[p]
        /\ resp[p] = Resp200 /\ added[p] # {}
        /\ resp[q] = RespConflict

\* C2 (as claimed): two valid create_test requests with the same test_id that
\* both ran to completion answered exactly one 200 {"status":"success"} and
\* one 409 {"error":"Conflict: test_id exists"}.
C2_ExactlyOne200One409 ==
    \A p, q \in Procs :
        (p # q /\ ValidCreate(p) /\ ValidCreate(q) /\ TestIdOf(p) = TestIdOf(q)
              /\ Done(p) /\ Done(q))
            => {resp[p], resp[q]} = {Resp200, RespConflict}

\* C3: a committed row is never removed or changed: every row of the table
\* is, with all six fields, a row of the table after every step.
C3_RowsImmutable == [][\A r \in table : r \in table']_vars

\* A request reused a stored test_id with other values and got 409, while the
\* row of the first request is in the table.
C3_Witness ==
    \E p, q \in Procs :
        /\ ValidCreate(p) /\ ValidCreate(q) /\ TestIdOf(p) = TestIdOf(q)
        /\ req[p].body # req[q].body
        /\ resp[p] = Resp200 /\ resp[q] = RespConflict
        /\ \E r \in table : SameFields(r, req[p].body)

C4_Stored(p) ==
    \E r \in table : SameFields(r, req[p].body) /\ r \in added[p] /\ r.created_at \in 0..(clock - 1)

C5_Answer(p) ==
    (IsCreate(p) /\ IsMapping(req[p].body) /\ ~ValidPayload(req[p].body))
        => /\ Done(p)
           /\ resp[p] = RespError(400, "Invalid or missing field: " \o FirstFailing(req[p].body))
           /\ conn[p] = 0
           /\ added[p] = {}

C5_InvalidFieldIs400 ==
    /\ [](\A p \in Procs : C5_Answer(p))
    /\ [][\A p \in Procs :
            (pc[p] = "idle" /\ IsCreate(p)' /\ IsMapping(req'[p].body) /\ ~ValidPayload(req'[p].body))
                => (table' = table /\ conns' = conns /\ nextConn' = nextConn)]_vars

\* A mapping with two failing fields was answered 400 naming the first,
\* while the table holds a row.
C5_Witness ==
    \E p \in Procs :
        /\ IsCreate(p) /\ IsMapping(req[p].body) /\ Done(p)
        /\ FieldFails(req[p].body, "patient_id") /\ FieldFails(req[p].body, "result")
        /\ ~FieldFails(req[p].body, "test_id")
        /\ resp[p] = RespError(400, "Invalid or missing field: patient_id")
        /\ table # {}

\* C6: get_tests with clinic_id absent or empty answers 400
\* {"error":"clinic_id is required"}; it opens no connection, runs no query
\* and leaves the table unchanged.
C6_Answer(q) ==
    (IsGet(q) /\ (~req[q].clinic.present \/ req[q].clinic.s = <<>>))
        => /\ Done(q)
           /\ resp[q] = RespClinicRequired
           /\ conn[q] = 0
           /\ cursor[q] = {}

C6_MissingClinicIs400 ==
    /\ [](\A q \in Procs : C6_Answer(q))
    /\ [][\A q \in Procs :
            (pc[q] = "idle" /\ IsGet(q)' /\ (~req'[q].clinic.present \/ req'[q].clinic.s = <<>>))
                => (table' = table /\ conns' = conns /\ nextConn' = nextConn)]_vars

\* get_tests with clinic_id = "" was answered 400 while the table holds a row.
C6_Witness ==
    \E q \in Procs :
        /\ IsGet(q) /\ req[q].clinic = Clinic(<<>>)
        /\ resp[q] = RespClinicRequired
        /\ table # {}

C8_NothingPropagates ==
    \A p \in Procs :
        Done(p) =>
            /\ resp[p].raised = ""
            /\ IsCreate(p) => resp[p] \in DocumentedCreate
            /\ IsGet(p) => (resp[p].status = 200 \/ resp[p] \in {RespClinicRequired, RespFetchFailed})

\* C9: when a handler has returned (or let an exception escape), the
\* connection it opened is closed, holds no transaction and no lock; no
\* connection object belongs to two requests; every open connection belongs
\* to a request still in progress.
C9_ConnectionsReleased ==
    /\ \A p \in Procs : (Done(p) /\ conn[p] # 0) => Closed(conn[p])
    /\ \A p, q \in Procs : (p # q /\ conn[p] # 0) => conn[p] # conn[q]
    /\ \A c \in ConnIds : ~Closed(c) => \E p \in Procs : conn[p] = c /\ ~Done(p)
    /\ (\A p \in Procs : Done(p)) => \A c \in ConnIds : Closed(c)

\* A ROLLBACK raised inside the except clause and the connection is closed.
C9_Witness ==
    \E p \in Procs :
        /\ Done(p) /\ IsCreate(p) /\ failed[p] # ""
        /\ resp[p].raised = "OperationalError"
        /\ conn[p] # 0 /\ Closed(conn[p])

\* C10 (as claimed): a create_test whose BEGIN, INSERT or COMMIT failed with
\* a storage error other than a uniqueness violation answers 500
\* {"error":"Internal Error"} and adds no row; a request that added a row
\* answered 200.
C10_StorageFailureIs500 ==
    \A p \in Procs :
        /\ (Done(p) /\ IsCreate(p) /\ failed[p] \in {"BEGIN", "INSERT", "COMMIT"})
              => (resp[p] = RespInternalError /\ added[p] = {})
        /\ added[p] # {} => resp[p] = Resp200

====
